---- MODULE Spec2Model ----
(***************************************************************************)
(* Model of the prime factorization engine (src/src/factor/mod.rs) with    *)
(* its modular arithmetic (src/src/arith/mod.rs) and primality oracle      *)
(* (src/src/prime/mod.rs).                                                 *)
(*                                                                         *)
(* Scale.  The program works on u32/u64/u128 and screens its input with    *)
(* the first 1006 primes; TLC's integers stop at 2^31 - 1.  The model      *)
(* keeps the code of every function and scales the data it runs on:        *)
(*   - the integer type T has BITS bits (ARITH_BITS in the arithmetic      *)
(*     specification, where all operands are enumerated);                  *)
(*   - SMALL_PRIMES is cut to the primes up to 31 and the prime 61.  As    *)
(*     in the program, every Miller-Rabin base that is prime (2, 7, 61)    *)
(*     is in the table, so the oracle is never asked about its own base,   *)
(*     and every cofactor c that leaves trial division is large enough     *)
(*     for Fermat's eleven candidates to stay below (c + 1) / 2, so the    *)
(*     trivial split 1 * c is out of reach, as it is above 7963;           *)
(*   - the wheel starts at 11, which is 7991 modulo the wheel's period     *)
(*     210, so the increments meet the same residues as in the program;    *)
(*   - MAX_WORKERS, MAX_ELLIPTIC_CURVES and the refresh period of the      *)
(*     curve counter are small.                                            *)
(***************************************************************************)
EXTENDS Integers, Sequences, FiniteSets, TLC

(***************************************************************************)
(* Bounds of the model.                                                    *)
(***************************************************************************)
\* width of the integer type T of a factorization (u32, u64, u128 in the code)
BITS == 28
\* width of T in the arithmetic specification, all operands enumerated
ARITH_BITS == 4
\* run(N) is started for every N in 0 .. MaxSmallInput and for HardInputs
MaxSmallInput == 70
\* thread count of an elliptic stage: one wheel worker, the rest ECM workers
\* (5 in the code)
MAX_WORKERS == 3
\* curves of one ECM worker in one stage (125 in the code)
MAX_ELLIPTIC_CURVES == 2
\* an ECM worker that found nothing re-reads the shared cofactor when its
\* curve count is a multiple of this (32 in the code: curve_count & 31 == 0)
CURVE_REFRESH == 2

(***************************************************************************)
(* Machine integers: T::max_value() and the wrap-around of +, - on T.      *)
(***************************************************************************)
max_value(w) == 2^w - 1

wrapping(w, v) == v % (2^w)

Min(a, b) == IF a < b THEN a ELSE b

Max(a, b) == IF a < b THEN b ELSE a

\* F applied to the value of v: a `let` of the code, evaluated once where
\* it is bound
Strict(v, F(_)) == CHOOSE r \in {F(x) : x \in {v}} : TRUE

(***************************************************************************)
(* CoreArith / Arith (src/src/arith/mod.rs).  w is the width of T.         *)
(***************************************************************************)
add_mod_unsafe_wrapsum(w, x, y, modu) == wrapping(w, x + y) % modu

add_mod_unsafe(w, x, y, modu) ==
    IF x < wrapping(w, modu - y)
    THEN wrapping(w, x + y)
    ELSE wrapping(w, Min(x, y) - wrapping(w, modu - Max(x, y)))

sub_mod_unsafe_noborrow(w, x, y, modu) == wrapping(w, x - y)

sub_mod_unsafe(w, x, y, modu) ==
    IF x >= y
    THEN wrapping(w, x - y)
    ELSE wrapping(w, modu - wrapping(w, y - x))

\* the exact (unwrapped) value of every intermediate add_mod_unsafe computes
add_mod_unsafe_values(w, x, y, modu) ==
    IF x < wrapping(w, modu - y)
    THEN {modu - y, x + y}
    ELSE {modu - y, modu - Max(x, y),
          Min(x, y) - wrapping(w, modu - Max(x, y))}

add_mod(w, x, y, modu) ==
    CASE x < modu /\ y < modu -> add_mod_unsafe(w, x, y, modu)
      [] x < modu /\ ~(y < modu) -> add_mod_unsafe(w, x, y % modu, modu)
      [] ~(x < modu) /\ y < modu -> add_mod_unsafe(w, x % modu, y, modu)
      [] OTHER -> add_mod_unsafe(w, x % modu, y % modu, modu)

\* the operands add_mod hands to add_mod_unsafe
add_mod_operands(x, y, modu) ==
    <<IF x < modu THEN x ELSE x % modu, IF y < modu THEN y ELSE y % modu>>

sub_mod(w, x, y, modu) ==
    CASE x < modu /\ y < modu -> sub_mod_unsafe(w, x, y, modu)
      [] x < modu /\ ~(y < modu) -> sub_mod_unsafe(w, x, y % modu, modu)
      [] ~(x < modu) /\ y < modu -> sub_mod_unsafe(w, x % modu, y, modu)
      [] OTHER -> sub_mod_unsafe(w, x % modu, y % modu, modu)

\* the loops below carry their variables as one tuple, <<x, y, res>> and
\* <<base, ex, res>>, the value of each after the iterations done so far
RECURSIVE mult_mod_loop(_, _, _)
mult_mod_loop(w, st, modu) ==
    LET x == st[1]
        y == st[2]
        res == st[3]
    IN  IF y > 0
        THEN mult_mod_loop(w,
                           <<add_mod_unsafe(w, x, x, modu),
                             y \div 2,
                             IF y % 2 = 1 THEN add_mod_unsafe(w, res, x, modu)
                                          ELSE res>>,
                           modu)
        ELSE res

mult_mod_unsafe_product(w, x, y, modu) == wrapping(w, x * y) % modu

mult_mod_unsafe(w, x, y, modu) ==
    IF x = 0 THEN x ELSE mult_mod_loop(w, <<x, y, 0>>, modu)

\* the exact (unwrapped) value of every intermediate of the loop of
\* mult_mod_unsafe from the state st on
RECURSIVE mult_mod_loop_values(_, _, _)
mult_mod_loop_values(w, st, modu) ==
    LET x == st[1]
        y == st[2]
        res == st[3]
    IN  IF y > 0
        THEN (IF y % 2 = 1 THEN add_mod_unsafe_values(w, res, x, modu)
                           ELSE {})
             \cup {y \div 2}
             \cup add_mod_unsafe_values(w, x, x, modu)
             \cup mult_mod_loop_values(
                    w,
                    <<add_mod_unsafe(w, x, x, modu),
                      y \div 2,
                      IF y % 2 = 1 THEN add_mod_unsafe(w, res, x, modu)
                                   ELSE res>>,
                    modu)
        ELSE {res}

mult_mod_unsafe_values(w, x, y, modu) ==
    IF x = 0 THEN {x} ELSE mult_mod_loop_values(w, <<x, y, 0>>, modu)

mult_mod(w, x, y, modu) ==
    CASE x < modu /\ y < modu -> mult_mod_unsafe(w, x, y, modu)
      [] x < modu /\ ~(y < modu) -> mult_mod_unsafe(w, x, y % modu, modu)
      [] ~(x < modu) /\ y < modu -> mult_mod_unsafe(w, x % modu, y, modu)
      [] OTHER -> mult_mod_unsafe(w, x % modu, y % modu, modu)

RECURSIVE exp_mod_loop(_, _, _)
exp_mod_loop(w, st, modu) ==
    LET base == st[1]
        ex == st[2]
        res == st[3]
    IN  IF ex > 0
        THEN exp_mod_loop(w,
                          <<mult_mod_unsafe(w, base, base, modu),
                            ex \div 2,
                            IF ex % 2 = 1
                            THEN mult_mod_unsafe(w, res, base, modu)
                            ELSE res>>,
                          modu)
        ELSE res

exp_mod_unsafe(w, base, ex, modu) ==
    IF base = 0 THEN base ELSE exp_mod_loop(w, <<base, ex, 1>>, modu)

exp_mod(w, base, ex, modu) ==
    IF base < modu
    THEN exp_mod_unsafe(w, base, ex, modu)
    ELSE exp_mod_unsafe(w, base % modu, ex, modu)

\* the loop of multip_inv on st = <<rem, rem_new, inv, inv_new>>: the
\* <<rem, inv>> it ends with
RECURSIVE multip_inv_loop(_, _, _)
multip_inv_loop(w, st, modu) ==
    LET rem == st[1]
        rem_new == st[2]
        inv == st[3]
        inv_new == st[4]
    IN  IF rem_new > 0
        THEN LET quo == rem \div rem_new
             IN  multip_inv_loop(
                   w,
                   <<rem_new,
                     wrapping(w, rem - wrapping(w, quo * rem_new)),
                     inv_new,
                     sub_mod_unsafe(w, inv,
                                    mult_mod_unsafe(w, quo, inv_new, modu),
                                    modu)>>,
                   modu)
        ELSE <<rem, inv>>

multip_inv_no_sentinel(w, x, modu) ==
    multip_inv_loop(w, <<modu, IF x >= modu THEN x % modu ELSE x, 0, 1>>,
                    modu)[2]

multip_inv(w, x, modu) ==
    LET r == multip_inv_loop(w,
                             <<modu, IF x >= modu THEN x % modu ELSE x, 0, 1>>,
                             modu)
    IN  IF r[1] > 1 THEN 0 ELSE r[2]

\* PrimInt::signed_shr(1) of a w-bit unsigned value: the top bit is copied
\* into the vacated position
signed_shr(w, x) ==
    (x \div 2) + (IF x >= 2 ^ (w - 1) THEN 2 ^ (w - 1) ELSE 0)

\* the inner loop of jacobi_symbol on st = <<x, par_t>>: halve x while it is
\* even, negating par_t when n is 3 or 5 modulo 8
RECURSIVE jacobi_halve(_, _, _)
jacobi_halve(w, st, n) ==
    IF st[1] % 2 = 0
    THEN jacobi_halve(w,
                      <<signed_shr(w, st[1]),
                        IF n % 8 \in {3, 5} THEN -st[2] ELSE st[2]>>,
                      n)
    ELSE st

\* the outer loop of jacobi_symbol on st = <<x, n, par_t>>
RECURSIVE jacobi_loop(_, _)
jacobi_loop(w, st) ==
    IF st[1] > 0
    THEN LET h == jacobi_halve(w, <<st[1], st[3]>>, st[2])
             x == st[2]
             n == h[1]
             par_t == IF x % 4 = 3 /\ n % 4 = 3 THEN -h[2] ELSE h[2]
         IN  jacobi_loop(w, <<x % n, n, par_t>>)
    ELSE st

jacobi_symbol(w, x, n) ==
    LET st == jacobi_loop(w, <<IF x >= n THEN x % n ELSE x, n, 1>>)
    IN  IF st[2] = 1 THEN st[3] ELSE 0

trunc_square_wrapping(w, x) == wrapping(w, x * x)

\* the products trunc_square computes, before any reduction to the width
trunc_square_values(w, x) ==
    IF x > 0 /\ x < max_value(w) \div x THEN {x * x} ELSE {}

trunc_square(w, x) ==
    IF x > 0
    THEN IF x < max_value(w) \div x THEN x * x ELSE 0
    ELSE 0

\* num::integer::sqrt, the floor of the square root
RECURSIVE sqrt_search(_, _, _)
sqrt_search(n, lo, hi) ==
    IF lo >= hi
    THEN lo
    ELSE Strict((lo + hi + 1) \div 2,
                LAMBDA mid : IF mid <= n \div mid
                             THEN sqrt_search(n, mid, hi)
                             ELSE sqrt_search(n, lo, mid - 1))

sqrt(n) == IF n = 0 THEN 0 ELSE sqrt_search(n, 1, n)

(***************************************************************************)
(* Primality oracle (src/src/prime/mod.rs).  Every value of the model is   *)
(* at most u32::MAX, so is_odd_prime_factor takes the arm of the bases     *)
(* 2, 7, 61.                                                               *)
(***************************************************************************)
RECURSIVE trailing_zeros(_)
trailing_zeros(n) == IF n % 2 = 1 THEN 0 ELSE 1 + trailing_zeros(n \div 2)

mr_base_small == <<2, 7, 61>>

\* the inner loop `for _ in 1..pow`: TRUE when some square equals num_even
RECURSIVE mr_squarings(_, _, _, _, _)
mr_squarings(w, q, rounds, num_even, num) ==
    IF rounds <= 0
    THEN FALSE
    ELSE LET q2 == mult_mod_unsafe(w, q, q, num)
         IN  IF q2 = num_even
             THEN TRUE
             ELSE mr_squarings(w, q2, rounds - 1, num_even, num)

mr_base_passes(w, num, base) ==
    LET num_even == num - 1
        pow == trailing_zeros(num_even)
        num_odd == num_even \div (2^pow)
        q == exp_mod(w, base, num_odd, num)
    IN  \/ q = 1
        \/ q = num_even
        \/ mr_squarings(w, q, pow - 1, num_even, num)

is_prime_mr_first_base(w, num, bases) == mr_base_passes(w, num, bases[1])

is_prime_mr(w, num, bases) ==
    \A i \in 1..Len(bases) : mr_base_passes(w, num, bases[i])

is_odd_prime_factor_of(w, num) ==
    IF num <= 1 \/ num % 2 = 0
    THEN FALSE
    ELSE is_prime_mr(w, num, mr_base_small)

(***************************************************************************)
(* The inputs of run and the cached oracle.                                *)
(***************************************************************************)
\* products of primes that survive trial division (37 and larger, not 61):
\* a square and a product of two near primes (Fermat), products Fermat
\* misses (the elliptic stage), a prime times the square of a prime near
\* it, fourth powers and squares of semiprimes (Fermat's recursion), a
\* prime next to T::max_value() (trunc_square overflows), and a number
\* with small and large prime factors
HardInputs ==
    {1369, 1517, 12247, 50653, 453139, 1871423, 69242651, 1874161,
     2301289, 268435399, 146964}

Inputs == (0..MaxSmallInput) \cup HardInputs

Divisors(n) ==
    LET low == {d \in 1..sqrt(n) : n % d = 0}
    IN  low \cup {n \div d : d \in low}

\* is_odd_prime_factor on every value a run on Inputs can ask about,
\* evaluated once
OracleCache ==
    [n \in UNION {Divisors(h) : h \in Inputs} |->
        is_odd_prime_factor_of(BITS, n)]

is_odd_prime_factor_rejects(num) == FALSE

is_odd_prime_factor(num) ==
    IF num \in DOMAIN OracleCache
    THEN OracleCache[num]
    ELSE is_odd_prime_factor_of(BITS, num)

(***************************************************************************)
(* Factorization (src/src/factor/mod.rs): the sequential parts.            *)
(***************************************************************************)
SMALL_PRIMES == <<2, 3, 5, 7, 11, 13, 17, 19, 23, 29, 31, 61>>

\* the value (*wheel).into() is added to k before the first test
WHEEL_START == 11

wheel_inc ==
    <<2, 4, 2, 4, 6, 2, 6, 4, 2, 4, 6, 6, 2, 6, 4, 2, 6, 4, 6, 8, 4, 2, 4,
      2, 4, 8, 6, 4, 6, 2, 4, 6, 2, 6, 6, 4, 2, 4, 6, 2, 6, 4, 2, 4, 2, 10,
      2, 10>>

Repeat(x, n) == [i \in 1..n |-> x]

trial_peel_once(num, prime, pushed) ==
    IF num % prime = 0
    THEN [num |-> num \div prime, pushed |-> Append(pushed, prime)]
    ELSE [num |-> num, pushed |-> pushed]

\* the inner `while num % prime == 0` of factorize_trial
RECURSIVE trial_peel(_, _, _)
trial_peel(num, prime, pushed) ==
    IF num % prime = 0
    THEN trial_peel(num \div prime, prime, Append(pushed, prime))
    ELSE [num |-> num, pushed |-> pushed]

\* scanned is the number of entries of SMALL_PRIMES the loop has visited
RECURSIVE trial_from(_, _, _)
trial_from(i, num, pushed) ==
    IF i > Len(SMALL_PRIMES)
    THEN [num |-> num, pushed |-> pushed, scanned |-> i - 1]
    ELSE Strict(trial_peel(num, SMALL_PRIMES[i], pushed),
                LAMBDA r : IF r.num = 1
                           THEN [num |-> r.num, pushed |-> r.pushed,
                                 scanned |-> i]
                           ELSE trial_from(i + 1, r.num, r.pushed))

\* [num: the value returned, pushed: what is appended to self.factors]
factorize_trial(num) == trial_from(1, num, <<>>)

fermat_pushes_once(level, a, b) == <<a - b, a + b>>

\* `for _ in 0..rounds`, rounds = level >> 1: a - b and a + b, rounds times
fermat_pushes(level, a, b) ==
    [i \in 1..(2 * (level \div 2)) |-> IF i % 2 = 1 THEN a - b ELSE a + b]

\* the `for _ in 0..10` of factorize_fermat, `left` iterations to go
RECURSIVE fermat_search(_, _, _, _, _)
fermat_search(num, level, a, a_square, left) ==
    IF left = 0
    THEN [num |-> num, pushed |-> <<>>]
    ELSE Strict(sqrt(a_square - num),
                LAMBDA b :
                  IF trunc_square(BITS, b) = a_square - num
                  THEN [num |-> 1, pushed |-> fermat_pushes(level, a, b)]
                  ELSE Strict(trunc_square(BITS, a + 1),
                              LAMBDA a1_square :
                                IF a1_square = 0
                                THEN [num |-> num, pushed |-> <<>>]
                                ELSE fermat_search(num, level, a + 1,
                                                   a1_square, left - 1)))

RECURSIVE factorize_fermat(_, _)
factorize_fermat(num, level) ==
    Strict(sqrt(num),
           LAMBDA a :
             IF trunc_square(BITS, a) = num
             THEN IF is_odd_prime_factor(a)
                  THEN [num |-> 1, pushed |-> Repeat(a, level)]
                  ELSE Strict(factorize_fermat(a, level * 2),
                              LAMBDA back :
                                [num |-> IF back.num > 1 THEN num
                                                         ELSE back.num,
                                 pushed |-> back.pushed])
             ELSE Strict(trunc_square(BITS, a + 1),
                         LAMBDA a1_square :
                           IF a1_square = 0
                           THEN [num |-> num, pushed |-> <<>>]
                           ELSE fermat_search(num, level, a + 1, a1_square,
                                              10)))

\* Vec::sort on unsigned integers
RECURSIVE insert_sorted(_, _)
insert_sorted(s, x) ==
    IF s = <<>> THEN <<x>>
    ELSE IF x < Head(s) THEN <<x>> \o s
         ELSE <<Head(s)>> \o insert_sorted(Tail(s), x)

RECURSIVE sort(_)
sort(s) ==
    IF s = <<>>
    THEN <<>>
    ELSE Strict(sort(Tail(s)), LAMBDA t : insert_sorted(t, Head(s)))

Reverse(s) == [i \in 1..Len(s) |-> s[Len(s) + 1 - i]]

\* the loop of prune_duplicate_factors over the sorted factors from the
\* largest (index i) down, `unique` in the order pushed
RECURSIVE prune_from(_, _, _, _)
prune_from(sorted, i, k, unique) ==
    IF i = 0
    THEN unique
    ELSE IF k % sorted[i] = 0
         THEN prune_from(sorted, i - 1, k \div sorted[i],
                         Append(unique, sorted[i]))
         ELSE prune_from(sorted, i - 1, k, unique)

prune_duplicate_factors_keep_all(num, factors) == sort(factors)

RECURSIVE dedup(_)
dedup(s) ==
    IF Len(s) <= 1
    THEN s
    ELSE IF s[1] = s[2]
         THEN dedup(Tail(s))
         ELSE <<s[1]>> \o dedup(Tail(s))

prune_duplicate_factors_dedup(num, factors) == dedup(sort(factors))

prune_duplicate_factors_unsorted(num, factors) ==
    Reverse(prune_from(factors, Len(factors), num, <<>>))

prune_duplicate_factors(num, factors) ==
    LET sorted == sort(factors)
    IN  Reverse(prune_from(sorted, Len(sorted), num, <<>>))

\* the loop of prime_factor_repr over factors from the last (index i) down
RECURSIVE repr_from(_, _, _, _, _, _)
repr_from(factors, i, k, count, prev_factor, repr) ==
    IF i = 0
    THEN repr
    ELSE LET curr_factor == factors[i]
             flush == curr_factor # prev_factor /\ count > 0
             repr1 == IF flush THEN Append(repr, <<prev_factor, count>>)
                               ELSE repr
             count1 == (IF flush THEN 0 ELSE count) + 1
             k1 == k \div curr_factor
         IN  IF k1 = 1
             THEN Append(repr1, <<curr_factor, count1>>)
             ELSE repr_from(factors, i - 1, k1, count1, curr_factor, repr1)

prime_factor_repr_noreverse(num, factors) ==
    repr_from(factors, Len(factors), num, 0, 0, <<>>)

prime_factor_repr(num, factors) ==
    Reverse(repr_from(factors, Len(factors), num, 0, 0, <<>>))

(***************************************************************************)
(* State.                                                                  *)
(***************************************************************************)
VARIABLES
    pc,     \* where the driver thread is: "run", "loop", "recv", "elliptic",
            \* "ret", "done", "repr" once the caller has the representation;
            \* "arith" in the arithmetic specification, "prime" and
            \* "stage" where the oracle and the sequential stages run on
            \* their own, "main" and "exit" in the command line program
    fz,     \* the live Factorization objects, fz[1] the one run returns, the
            \* others the factorization_inner of factorize_elliptic; cof is
            \* the local `num` of factorize_until_completed, ec the part of
            \* ec_factors that factorize_elliptic has still to visit
    mf,     \* the MaybeFactors of the current elliptic stage, behind its mutex
    wheel,  \* the wheel worker of the stage: its locals num, k and the
            \* position i in wheel_inc
    ecm,    \* the ECM workers of the stage: their locals num and curve_count
    chan,   \* the messages sent on the result channel of the stage
    poisoned, \* whether the mutex of the stage is poisoned: lock() fails
    repr,   \* what the caller got from prime_factor_repr on the result
    prev,   \* what an earlier run on the same number returned, or empty
    arith,  \* a function run on its own: the operands drawn, the
            \* operation applied to them and its result
    cli     \* the command line program: its arguments (each a sequence of
            \* characters) and the exit code of the process, -1 while it runs

vars == <<pc, fz, mf, wheel, ecm, chan, poisoned, repr, prev, arith, cli>>

EcmIds == 1..(MAX_WORKERS - 1)

NoStage ==
    /\ mf = [num |-> 0, factors |-> <<>>]
    /\ wheel = [pc |-> "idle", num |-> 0, k |-> 0, i |-> 0]
    /\ ecm = [w \in EcmIds |-> [pc |-> "idle", num |-> 0, curve_count |-> 0]]
    /\ chan = <<>>
    /\ poisoned = FALSE

NoArith ==
    arith = [op |-> "none", x |-> 0, y |-> 0, modu |-> 1, res |-> 0,
             vals |-> {}]

NoCaller ==
    /\ repr = <<>>
    /\ prev = <<>>
    /\ cli = [args |-> <<>>, code |-> -1]

UnchangedCaller == UNCHANGED <<repr, prev, arith, cli>>

\* Factorization { num, is_prime: false, factors: Vec::new() }, about to
\* be worked on from cofactor num
NewFactorization(num) ==
    [num |-> num, is_prime |-> FALSE, factors |-> <<>>, cof |-> num,
     ec |-> <<>>]

Init ==
    /\ pc = "run"
    /\ \E n \in Inputs : fz = <<NewFactorization(n)>>
    /\ NoStage
    /\ NoCaller
    /\ NoArith

top == Len(fz)

UnchangedStage == UNCHANGED <<mf, wheel, ecm, chan, poisoned>>

(***************************************************************************)
(* The driver thread.                                                      *)
(***************************************************************************)
\* run, line 150: `if num <= T::one()`
run_returns_empty_below_one(n) == n < 1

run_returns_empty(n) == n <= 1

\* run, lines 144-152: the early return for num <= 1
RunDegenerate ==
    /\ pc = "run"
    /\ run_returns_empty(fz[1].num)
    /\ pc' = "done"
    /\ UNCHANGED fz
    /\ UnchangedCaller
    /\ UnchangedStage

\* run, line 154: factorize_trial, then into factorize_until_completed
RunTrial ==
    /\ pc = "run"
    /\ ~run_returns_empty(fz[1].num)
    /\ LET t == factorize_trial(fz[1].num)
       IN  fz' = [fz EXCEPT ![1].factors = @ \o t.pushed, ![1].cof = t.num]
    /\ pc' = "loop"
    /\ UnchangedCaller
    /\ UnchangedStage

\* factorize_until_completed: the loop condition fails
LoopExit ==
    /\ pc = "loop"
    /\ fz[top].cof <= 1
    /\ pc' = "ret"
    /\ UNCHANGED fz
    /\ UnchangedCaller
    /\ UnchangedStage

\* factorize_until_completed: factorize_fermat returns one
LoopFermat ==
    /\ pc = "loop"
    /\ fz[top].cof > 1
    /\ LET f == factorize_fermat(fz[top].cof, 2)
       IN  /\ f.num = 1
           /\ fz' = [fz EXCEPT ![top].factors = @ \o f.pushed,
                               ![top].cof = f.num]
    /\ pc' = "ret"
    /\ UnchangedCaller
    /\ UnchangedStage

\* factorize_until_completed: the cofactor Fermat left is prime
LoopPrime ==
    /\ pc = "loop"
    /\ fz[top].cof > 1
    /\ LET f == factorize_fermat(fz[top].cof, 2)
       IN  /\ f.num # 1
           /\ is_odd_prime_factor(f.num)
           /\ fz' = [fz EXCEPT ![top].factors = (@ \o f.pushed) \o <<f.num>>,
                               ![top].cof = f.num]
    /\ pc' = "ret"
    /\ UnchangedCaller
    /\ UnchangedStage

\* factorize_until_completed -> factorize_elliptic -> spawn_and_run_workers,
\* lines 336-355: the shared record, the channel and the threads
LoopSpawn ==
    /\ pc = "loop"
    /\ fz[top].cof > 1
    /\ LET f == factorize_fermat(fz[top].cof, 2)
       IN  /\ f.num # 1
           /\ ~is_odd_prime_factor(f.num)
           /\ fz' = [fz EXCEPT ![top].factors = @ \o f.pushed,
                               ![top].cof = f.num]
           /\ mf' = [num |-> f.num, factors |-> <<>>]
           /\ wheel' = [pc |-> "run", num |-> f.num, k |-> WHEEL_START,
                        i |-> 0]
           /\ ecm' = [w \in EcmIds |->
                        [pc |-> "run", num |-> f.num, curve_count |-> 1]]
    /\ chan' = <<>>
    /\ poisoned' = FALSE
    /\ pc' = "recv"
    /\ UnchangedCaller

\* spawn_and_run_workers, lines 357-376, on the Factorization f that runs
\* the stage: with the message `completed` received, the pairs of the
\* record go to ec_factors and the cofactor is 1 or the shared one; when
\* lock() fails the cofactor is returned as it came and nothing is drained
\* a driver that reads the record of a poisoned mutex all the same
recv_and_drain_poisoned(f, completed, shared, lock_fails) ==
    [f EXCEPT !.ec = shared.factors,
              !.cof = IF completed THEN 1 ELSE shared.num]

\* a driver that takes every message for a completion
recv_and_drain_always_complete(f, completed, shared, lock_fails) ==
    IF lock_fails
    THEN [f EXCEPT !.ec = <<>>]
    ELSE [f EXCEPT !.ec = shared.factors, !.cof = 1]

recv_and_drain(f, completed, shared, lock_fails) ==
    IF lock_fails
    THEN [f EXCEPT !.ec = <<>>]
    ELSE [f EXCEPT !.ec = shared.factors,
                   !.cof = IF completed THEN 1 ELSE shared.num]

\* spawn_and_run_workers, lines 357-376: the first message, then the record
\* under the lock.  The workers of the stage are detached: nothing they do
\* later is read again.
Collect ==
    /\ pc = "recv"
    /\ chan # <<>>
    /\ fz' = [fz EXCEPT ![top] = recv_and_drain(@, Head(chan), mf, poisoned)]
    /\ mf' = [num |-> 0, factors |-> <<>>]
    /\ wheel' = [pc |-> "idle", num |-> 0, k |-> 0, i |-> 0]
    /\ ecm' = [w \in EcmIds |-> [pc |-> "idle", num |-> 0, curve_count |-> 0]]
    /\ chan' = <<>>
    /\ poisoned' = FALSE
    /\ pc' = "elliptic"
    /\ UnchangedCaller

\* factorize_elliptic, lines 313-315: a pair that is, or is found, prime
SplicePrime ==
    /\ pc = "elliptic"
    /\ fz[top].ec # <<>>
    /\ LET ec_factor == Head(fz[top].ec)[1]
           is_sure_prime == Head(fz[top].ec)[2]
       IN  /\ is_sure_prime \/ is_odd_prime_factor(ec_factor)
           /\ fz' = [fz EXCEPT ![top].factors = Append(@, ec_factor),
                               ![top].ec = Tail(@)]
    /\ UNCHANGED pc
    /\ UnchangedCaller
    /\ UnchangedStage

\* factorize_elliptic, lines 316-324: factorization_inner for the pair
SpliceInner ==
    /\ pc = "elliptic"
    /\ fz[top].ec # <<>>
    /\ LET ec_factor == Head(fz[top].ec)[1]
           is_sure_prime == Head(fz[top].ec)[2]
       IN  /\ ~(is_sure_prime \/ is_odd_prime_factor(ec_factor))
           /\ fz' = Append([fz EXCEPT ![top].ec = Tail(@)],
                           NewFactorization(ec_factor))
    /\ pc' = "loop"
    /\ UnchangedCaller
    /\ UnchangedStage

\* factorize_elliptic returns num, the loop of factorize_until_completed
\* goes on
SpliceEnd ==
    /\ pc = "elliptic"
    /\ fz[top].ec = <<>>
    /\ pc' = "loop"
    /\ UNCHANGED fz
    /\ UnchangedCaller
    /\ UnchangedStage

\* factorize_elliptic, lines 326-328: the inner factors are pushed
ReturnInner ==
    /\ pc = "ret"
    /\ top > 1
    /\ fz' = [SubSeq(fz, 1, top - 1) EXCEPT
                ![top - 1].factors = @ \o fz[top].factors]
    /\ pc' = "elliptic"
    /\ UnchangedCaller
    /\ UnchangedStage

\* run, lines 157-163
ReturnRun ==
    /\ pc = "ret"
    /\ top = 1
    /\ fz' = IF Len(fz[1].factors) > 1
             THEN [fz EXCEPT ![1].factors =
                                prune_duplicate_factors(fz[1].num, @)]
             ELSE [fz EXCEPT ![1].is_prime = TRUE]
    /\ pc' = "done"
    /\ UnchangedCaller
    /\ UnchangedStage

(***************************************************************************)
(* The workers of an elliptic stage.  A worker touches the shared record   *)
(* only under its mutex, and what it computes before taking the lock       *)
(* reads its own locals alone, so one loop iteration is one step.          *)
(***************************************************************************)
\* EllipticCurve::compute_maybe_factor_from_curve(num): a gcd with num, for
\* a random sigma: any divisor of num
compute_maybe_factor_from_curve(num) == Divisors(num)

\* an iteration that never re-reads the shared cofactor
elliptic_worker_no_refresh(num, curve_count, maybe_factor, shared) ==
    IF maybe_factor > 1 /\ maybe_factor < num
    THEN IF maybe_factor > shared.num
         THEN [num |-> shared.num, shared |-> shared]
         ELSE LET num1 == num \div maybe_factor
                  pushed == Append(shared.factors, <<maybe_factor, FALSE>>)
              IN  IF is_odd_prime_factor(num1)
                  THEN [num |-> 1,
                        shared |-> [num |-> 1,
                                    factors |-> Append(pushed, <<num1, TRUE>>)]]
                  ELSE [num |-> num1,
                        shared |-> [num |-> num1, factors |-> pushed]]
    ELSE IF maybe_factor = num /\ is_odd_prime_factor(maybe_factor)
         THEN IF maybe_factor = shared.num
              THEN [num |-> 1,
                    shared |-> [num |-> 1,
                                factors |-> Append(shared.factors,
                                                   <<maybe_factor, TRUE>>)]]
              ELSE [num |-> shared.num, shared |-> shared]
         ELSE [num |-> num, shared |-> shared]

\* one iteration of the loop of elliptic_worker, lines 399-446, with the
\* curve's result maybe_factor; shared is the MaybeFactors under the lock.
\* When lock() fails (lines 404-407, 426-429, 441) the iteration changes
\* nothing but curve_count.
elliptic_worker_curve(num, curve_count, maybe_factor, shared) ==
    IF maybe_factor > 1 /\ maybe_factor < num
    THEN IF maybe_factor > shared.num
         THEN [num |-> shared.num, shared |-> shared]
         ELSE LET num1 == num \div maybe_factor
                  pushed == Append(shared.factors, <<maybe_factor, FALSE>>)
              IN  IF is_odd_prime_factor(num1)
                  THEN [num |-> 1,
                        shared |-> [num |-> 1,
                                    factors |-> Append(pushed, <<num1, TRUE>>)]]
                  ELSE [num |-> num1,
                        shared |-> [num |-> num1, factors |-> pushed]]
    ELSE IF maybe_factor = num /\ is_odd_prime_factor(maybe_factor)
         THEN IF maybe_factor = shared.num
              THEN [num |-> 1,
                    shared |-> [num |-> 1,
                                factors |-> Append(shared.factors,
                                                   <<maybe_factor, TRUE>>)]]
              ELSE [num |-> shared.num, shared |-> shared]
         ELSE IF curve_count % CURVE_REFRESH = 0
              THEN [num |-> shared.num, shared |-> shared]
              ELSE [num |-> num, shared |-> shared]

send_dropped(channel, completed) == channel

\* Sender::send of the mpsc channel, lines 449 and 502
send(channel, completed) == Append(channel, completed)

\* a loop that runs one curve more than the budget
elliptic_worker_one_more(num, curve_count) ==
    num > 1 /\ curve_count <= MAX_ELLIPTIC_CURVES + 1

\* elliptic_worker, line 398: the loop condition
elliptic_worker_continues(num, curve_count) ==
    num > 1 /\ curve_count <= MAX_ELLIPTIC_CURVES

EcmCurve(w) ==
    /\ ecm[w].pc = "run"
    /\ elliptic_worker_continues(ecm[w].num, ecm[w].curve_count)
    /\ \E maybe_factor \in compute_maybe_factor_from_curve(ecm[w].num) :
         LET r == IF poisoned
                  THEN [num |-> ecm[w].num, shared |-> mf]
                  ELSE elliptic_worker_curve(ecm[w].num, ecm[w].curve_count,
                                             maybe_factor, mf)
         IN  /\ ecm' = [ecm EXCEPT ![w].num = r.num,
                                   ![w].curve_count = @ + 1]
             /\ mf' = r.shared
    /\ UNCHANGED <<pc, fz, wheel, chan, poisoned>>
    /\ UnchangedCaller

\* elliptic_worker, line 449; once spawn_and_run_workers has returned the
\* receiver is dropped, send returns an error and the error is ignored
EcmSend(w) ==
    /\ ecm[w].pc = "run"
    /\ ~elliptic_worker_continues(ecm[w].num, ecm[w].curve_count)
    /\ chan' = IF pc = "recv" THEN send(chan, ecm[w].num = 1) ELSE chan
    /\ ecm' = [ecm EXCEPT ![w].pc = "done"]
    /\ UNCHANGED <<pc, fz, mf, wheel, poisoned>>
    /\ UnchangedCaller

\* the iterations of the loop of wheel_worker that neither end the search
\* nor find a divisor change k alone: the next k, and position in wheel_inc,
\* at which k > num / k or k divides num
RECURSIVE wheel_next(_, _, _)
wheel_next(k, i, num) ==
    Strict(<<k + wheel_inc[i + 1], (i + 1) % Len(wheel_inc)>>,
           LAMBDA n : IF n[1] > num \div n[1] \/ num % n[1] = 0
                      THEN [k |-> n[1], i |-> n[2]]
                      ELSE wheel_next(n[1], n[2], num))

wheel_peel_once(num, k, factors) ==
    [num |-> num \div k, factors |-> Append(factors, <<k, TRUE>>)]

\* the `loop` of wheel_worker, lines 489-498
RECURSIVE wheel_peel(_, _, _)
wheel_peel(num, k, factors) ==
    LET num1 == num \div k
        pushed == Append(factors, <<k, TRUE>>)
    IN  IF num1 % k # 0
        THEN [num |-> num1, factors |-> pushed]
        ELSE wheel_peel(num1, k, pushed)

\* a wheel worker that ends the search without recording what is left
wheel_worker_drops_rest(num, k, shared) ==
    IF k > num \div k
    THEN [num |-> 1, brk |-> TRUE,
          shared |-> [num |-> 1, factors |-> shared.factors]]
    ELSE IF num % k = 0
         THEN IF \/ k > shared.num
                 \/ \E e \in 1..Len(shared.factors) : shared.factors[e][1] = k
              THEN [num |-> shared.num, brk |-> TRUE, shared |-> shared]
              ELSE LET p == wheel_peel(num, k, shared.factors)
                   IN  [num |-> p.num, brk |-> FALSE,
                        shared |-> [num |-> p.num, factors |-> p.factors]]
         ELSE [num |-> num, brk |-> FALSE, shared |-> shared]

\* one iteration of the loop of wheel_worker at candidate k, lines 468-499:
\* brk tells whether the loop is left
wheel_worker_at(num, k, shared) ==
    IF k > num \div k
    THEN [num |-> 1, brk |-> TRUE,
          shared |-> [num |-> 1,
                      factors |-> Append(shared.factors, <<num, FALSE>>)]]
    ELSE IF num % k = 0
         THEN IF \/ k > shared.num
                 \/ \E e \in 1..Len(shared.factors) : shared.factors[e][1] = k
              THEN [num |-> shared.num, brk |-> TRUE, shared |-> shared]
              ELSE LET p == wheel_peel(num, k, shared.factors)
                   IN  [num |-> p.num, brk |-> FALSE,
                        shared |-> [num |-> p.num, factors |-> p.factors]]
         ELSE [num |-> num, brk |-> FALSE, shared |-> shared]

WheelStep ==
    /\ wheel.pc = "run"
    /\ LET n == wheel_next(wheel.k, wheel.i, wheel.num)
           r == IF poisoned
                THEN [num |-> wheel.num, brk |-> TRUE, shared |-> mf]
                ELSE wheel_worker_at(wheel.num, n.k, mf)
       IN  /\ wheel' = [pc |-> IF r.brk THEN "send" ELSE "run",
                        num |-> r.num, k |-> n.k, i |-> n.i]
           /\ mf' = r.shared
    /\ UNCHANGED <<pc, fz, ecm, chan, poisoned>>
    /\ UnchangedCaller

\* wheel_worker, line 502
WheelSend ==
    /\ wheel.pc = "send"
    /\ chan' = IF pc = "recv" THEN send(chan, wheel.num = 1) ELSE chan
    /\ wheel' = [wheel EXCEPT !.pc = "done"]
    /\ UNCHANGED <<pc, fz, mf, ecm, poisoned>>
    /\ UnchangedCaller

(***************************************************************************)
(* The caller of run.                                                      *)
(***************************************************************************)
\* prime_factor_repr on the Factorization run returned
PrimeFactorRepr ==
    /\ pc = "done"
    /\ repr' = prime_factor_repr(fz[1].num, fz[1].factors)
    /\ pc' = "repr"
    /\ UNCHANGED <<fz, prev, arith, cli>>
    /\ UnchangedStage

\* a second execution of run on the same number, the result of the first
\* kept for comparison
RunAgain ==
    /\ pc = "done"
    /\ prev = <<>>
    /\ prev' = <<[factors |-> fz[1].factors, is_prime |-> fz[1].is_prime]>>
    /\ fz' = <<NewFactorization(fz[1].num)>>
    /\ pc' = "run"
    /\ UNCHANGED <<repr, arith, cli>>
    /\ UnchangedStage

Driver ==
    \/ RunDegenerate
    \/ RunTrial
    \/ LoopExit
    \/ LoopFermat
    \/ LoopPrime
    \/ LoopSpawn
    \/ Collect
    \/ SplicePrime
    \/ SpliceInner
    \/ SpliceEnd
    \/ ReturnInner
    \/ ReturnRun

Workers ==
    \/ WheelStep
    \/ WheelSend
    \/ \E w \in EcmIds : EcmCurve(w)
    \/ \E w \in EcmIds : EcmSend(w)

Next ==
    \/ Driver
    \/ Workers
    \/ PrimeFactorRepr

Spec == Init /\ [][Next]_vars

\* two executions of run on every input
NextTwice ==
    \/ Driver
    \/ Workers
    \/ RunAgain

SpecTwice == Init /\ [][NextTwice]_vars

(***************************************************************************)
(* What run returns.                                                       *)
(***************************************************************************)
Returned == pc \in {"done", "repr"}

num == fz[1].num

factors == fz[1].factors

is_prime == fz[1].is_prime

\* n is the product of the elements of s, by dividing them out of n
RECURSIVE IsProductOf(_, _)
IsProductOf(n, s) ==
    IF s = <<>>
    THEN n = 1
    ELSE /\ Head(s) > 0
         /\ n % Head(s) = 0
         /\ IsProductOf(n \div Head(s), Tail(s))

IsPrime(n) == n > 1 /\ \A d \in 2..sqrt(n) : n % d # 0

IsSorted(s) == \A i \in 1..(Len(s) - 1) : s[i] <= s[i + 1]

C2_AllPrime ==
    (Returned /\ num >= 2) => \A i \in 1..Len(factors) : IsPrime(factors[i])

\* C3: when run(N) has returned for N >= 2, factors is sorted in
\* non-decreasing order
C3_Sorted == (Returned /\ num >= 2) => IsSorted(factors)

\* run(2 * 2 * 3 * 37 * 331) has returned through prune_duplicate_factors
C3_Witness ==
    Returned /\ num = 146964 /\ factors = <<2, 2, 3, 37, 331>>

\* C4: when run(N) has returned for N >= 2, is_prime holds exactly when
\* factors has one element
C4_IsPrimeIffOne ==
    (Returned /\ num >= 2) => (is_prime <=> Len(factors) = 1)

\* run(67) has returned: one factor, is_prime set
C4_Witness == Returned /\ num = 67 /\ factors = <<67>> /\ is_prime

\* C5: for N in {0, 1} run does nothing but return: in every state the
\* Factorization is as constructed (factors empty, is_prime false, num and
\* the cofactor the input: no trial division) and no stage exists (no
\* worker was spawned)
C5_DegenerateInput ==
    (pc # "arith" /\ num <= 1) =>
        /\ pc \in {"run", "done", "repr"}
        /\ fz = <<NewFactorization(num)>>
        /\ NoStage

\* run(1) has returned
C5_Witness ==
    pc = "done" /\ num = 1 /\ factors = <<>> /\ ~is_prime /\ NoStage

\* C6: two executions of run on the same N >= 2 return the same factors
\* and the same is_prime
C6_Deterministic ==
    (Returned /\ num >= 2 /\ prev # <<>>) =>
        /\ factors = prev[1].factors
        /\ is_prime = prev[1].is_prime

Count(s, p) == Cardinality({i \in 1..Len(s) : s[i] = p})

RECURSIVE PowerProduct(_)
PowerProduct(r) ==
    IF r = <<>> THEN 1 ELSE (Head(r)[1] ^ Head(r)[2]) * PowerProduct(Tail(r))

FairInputs == (0..MaxSmallInput) \cup {1369, 1517, 12247, 50653}

InitFair ==
    /\ pc = "run"
    /\ \E n \in FairInputs : fz = <<NewFactorization(n)>>
    /\ NoStage
    /\ NoCaller
    /\ NoArith

\* the driver is one thread: of its steps at most one is enabled, and it
\* stays enabled until the driver takes it
Fairness ==
    /\ WF_vars(RunDegenerate)
    /\ WF_vars(RunTrial)
    /\ WF_vars(LoopExit)
    /\ WF_vars(LoopFermat)
    /\ WF_vars(LoopPrime)
    /\ WF_vars(LoopSpawn)
    /\ WF_vars(Collect)
    /\ WF_vars(SplicePrime)
    /\ WF_vars(SpliceInner)
    /\ WF_vars(SpliceEnd)
    /\ WF_vars(ReturnInner)
    /\ WF_vars(ReturnRun)
    /\ WF_vars(PrimeFactorRepr)
    /\ WF_vars(WheelStep \/ WheelSend)
    /\ \A w \in EcmIds : WF_vars(EcmCurve(w) \/ EcmSend(w))

SpecFair == InitFair /\ [][Next]_vars /\ Fairness

\* spawn_and_run_workers receives false from a stage whose workers
\* recorded nothing: the cofactor goes back to the loop as it came
FruitlessStage ==
    /\ Collect
    /\ Head(chan) = FALSE
    /\ mf.factors = <<>>

ArithValues == 0..max_value(ARITH_BITS)

InitArith ==
    /\ pc = "arith"
    /\ fz = <<>>
    /\ NoStage
    /\ NoCaller
    /\ \E x \in ArithValues, y \in ArithValues, modu \in ArithValues \ {0} :
         arith = [op |-> "none", x |-> x, y |-> y, modu |-> modu, res |-> 0,
                  vals |-> {}]

UnchangedRun ==
    UNCHANGED <<pc, fz, mf, wheel, ecm, chan, poisoned, repr, prev, cli>>

\* Arith::add_mod(x, y, modu); vals are the exact values of the
\* intermediates of the computation
ArithAddMod ==
    /\ pc = "arith"
    /\ arith.op = "none"
    /\ LET o == add_mod_operands(arith.x, arith.y, arith.modu)
       IN  arith' = [arith EXCEPT
                       !.op = "add_mod",
                       !.res = add_mod(ARITH_BITS, arith.x, arith.y, arith.modu),
                       !.vals = {o[1], o[2]} \cup
                                add_mod_unsafe_values(ARITH_BITS, o[1], o[2],
                                                      arith.modu)]
    /\ UnchangedRun

\* Arith::sub_mod(s, y, modu) on the sum s that add_mod returned
ArithSubMod ==
    /\ pc = "arith"
    /\ arith.op = "add_mod"
    /\ arith' = [arith EXCEPT
                   !.op = "add_sub",
                   !.res = sub_mod(ARITH_BITS, arith.res, arith.y, arith.modu),
                   !.vals = {}]
    /\ UnchangedRun

\* Arith::mult_mod(x, y, modu); its operands are reduced as those of add_mod
ArithMultMod ==
    /\ pc = "arith"
    /\ arith.op = "none"
    /\ LET o == add_mod_operands(arith.x, arith.y, arith.modu)
       IN  arith' = [arith EXCEPT
                       !.op = "mult_mod",
                       !.res = mult_mod(ARITH_BITS, arith.x, arith.y,
                                        arith.modu),
                       !.vals = {o[1], o[2]} \cup
                                mult_mod_unsafe_values(ARITH_BITS, o[1], o[2],
                                                       arith.modu)]
    /\ UnchangedRun

\* Arith::exp_mod(base, ex, modu) with base = x and ex = y
ArithExpMod ==
    /\ pc = "arith"
    /\ arith.op = "none"
    /\ arith' = [arith EXCEPT
                   !.op = "exp_mod",
                   !.res = exp_mod(ARITH_BITS, arith.x, arith.y, arith.modu)]
    /\ UnchangedRun

\* Arith::multip_inv(x, modu)
ArithMultipInv ==
    /\ pc = "arith"
    /\ arith.op = "none"
    /\ arith' = [arith EXCEPT
                   !.op = "multip_inv",
                   !.res = multip_inv(ARITH_BITS, arith.x, arith.modu)]
    /\ UnchangedRun

\* Arith::jacobi_symbol(x, n), n = arith.modu
ArithJacobiSymbol ==
    /\ pc = "arith"
    /\ arith.op = "none"
    /\ arith' = [arith EXCEPT
                   !.op = "jacobi_symbol",
                   !.res = jacobi_symbol(ARITH_BITS, arith.x, arith.modu)]
    /\ UnchangedRun

\* Arith::trunc_square(x)
ArithTruncSquare ==
    /\ pc = "arith"
    /\ arith.op = "none"
    /\ arith' = [arith EXCEPT
                   !.op = "trunc_square",
                   !.res = trunc_square(ARITH_BITS, arith.x),
                   !.vals = trunc_square_values(ARITH_BITS, arith.x)]
    /\ UnchangedRun

NextArith ==
    \/ ArithTruncSquare
    \/ ArithJacobiSymbol
    \/ ArithMultipInv
    \/ ArithAddMod
    \/ ArithSubMod
    \/ ArithMultMod
    \/ ArithExpMod

SpecArith == InitArith /\ [][NextArith]_vars

\* C9: add_mod(x, y, m) is (x + y) mod m, lies in [0, m), and no
\* intermediate of its computation leaves [0, 2^W - 1], for every x, y of
\* the width and every m from 1 to 2^W - 1
C9_AddMod ==
    arith.op = "add_mod" =>
        /\ arith.res = (arith.x + arith.y) % arith.modu
        /\ arith.res \in 0..(arith.modu - 1)
        /\ \A v \in arith.vals : 0 <= v /\ v <= max_value(ARITH_BITS)

\* add_mod with the modulus T::max_value() on operands whose sum exceeds it
C9_Witness ==
    /\ arith.op = "add_mod"
    /\ arith.modu = max_value(ARITH_BITS)
    /\ arith.x = arith.modu - 1
    /\ arith.y = arith.modu - 1
    /\ arith.res = arith.modu - 2

\* C10: for x, y < m, sub_mod(add_mod(x, y, m), y, m) = x
C10_AddSubRoundTrip ==
    (arith.op = "add_sub" /\ arith.x < arith.modu /\ arith.y < arith.modu) =>
        arith.res = arith.x

\* the sum was reduced (x + y >= m) and the difference borrowed
C10_Witness ==
    /\ arith.op = "add_sub"
    /\ arith.x < arith.modu
    /\ arith.y < arith.modu
    /\ arith.x + arith.y >= arith.modu
    /\ arith.y > 0
    /\ arith.res = arith.x

\* C11: mult_mod(x, y, m) is (x * y) mod m, lies in [0, m), and no
\* intermediate of the doubling loop leaves [0, 2^W - 1], for every x, y of
\* the width and every m from 1 to 2^W - 1
C11_MultMod ==
    arith.op = "mult_mod" =>
        /\ arith.res = (arith.x * arith.y) % arith.modu
        /\ arith.res \in 0..(arith.modu - 1)
        /\ \A v \in arith.vals : 0 <= v /\ v <= max_value(ARITH_BITS)

\* mult_mod with the modulus T::max_value() on operands whose product does
\* not fit the width
C11_Witness ==
    /\ arith.op = "mult_mod"
    /\ arith.modu = max_value(ARITH_BITS)
    /\ arith.x = arith.modu - 1
    /\ arith.y = arith.modu - 2
    /\ arith.res = 2

\* C12: exp_mod(b, 0, m) = 1 for every base b # 0 and every modulus m >= 1,
\* and the result lies in [0, m)
C12_ExpZero ==
    (arith.op = "exp_mod" /\ arith.y = 0 /\ arith.x # 0) =>
        /\ arith.res = 1
        /\ arith.res \in 0..(arith.modu - 1)

\* the greatest common divisor, gcd(0, b) = b
RECURSIVE GCD(_, _)
GCD(a, b) == IF b = 0 THEN a ELSE GCD(b, a % b)

\* C13: for every modulus m >= 1 and every x of the width, multip_inv(x, m)
\* is an i in [0, m) with x * i congruent to 1 modulo m when gcd(x, m) = 1,
\* and it is 0 when gcd(x, m) > 1
C13_MultipInv ==
    arith.op = "multip_inv" =>
        IF GCD(arith.x, arith.modu) = 1
        THEN /\ arith.res \in 0..(arith.modu - 1)
             /\ (arith.x * arith.res) % arith.modu = 1 % arith.modu
        ELSE arith.res = 0

\* the inverse of 7 modulo T::max_value() = 15 is 13
C13_Witness ==
    /\ arith.op = "multip_inv"
    /\ arith.modu = max_value(ARITH_BITS)
    /\ arith.x = 7
    /\ GCD(arith.x, arith.modu) = 1
    /\ arith.res > 1
    /\ (arith.x * arith.res) % arith.modu = 1

\* the Legendre symbol of a modulo the odd prime p
Legendre(a, p) ==
    IF a % p = 0 THEN 0
    ELSE IF \E r \in 1..(p - 1) : (r * r) % p = a % p THEN 1
    ELSE -1

\* the Jacobi symbol of a over the odd n >= 1: the product of the Legendre
\* symbols of a over the prime factors of n, taken with multiplicity
RECURSIVE Jacobi(_, _)
Jacobi(a, n) ==
    IF n = 1 THEN 1
    ELSE LET p == CHOOSE d \in 2..n : n % d = 0 /\ \A e \in 2..(d - 1) : n % e # 0
         IN  Legendre(a, p) * Jacobi(a, n \div p)

\* C14: for every odd n >= 1 and every x of the width, an even x with its
\* top bit set included, jacobi_symbol(x, n) is the Jacobi symbol of x over
\* n, a value in {-1, 0, 1}, and for an odd prime n it is 0 exactly when n
\* divides x
C14_JacobiSymbol ==
    (arith.op = "jacobi_symbol" /\ arith.modu % 2 = 1) =>
        /\ arith.res \in {-1, 0, 1}
        /\ arith.res = Jacobi(arith.x, arith.modu)
        /\ IsPrime(arith.modu) => (arith.res = 0 <=> arith.x % arith.modu = 0)

\* C15: trunc_square(x) is x * x when x * x < 2^W and 0 otherwise, 0 for
\* x = 0 in particular, and no product it computes exceeds 2^W - 1
C15_TruncSquare ==
    arith.op = "trunc_square" =>
        /\ arith.res = IF arith.x * arith.x < 2 ^ ARITH_BITS
                       THEN arith.x * arith.x
                       ELSE 0
        /\ arith.x = 0 => arith.res = 0
        /\ \A v \in arith.vals : v <= max_value(ARITH_BITS)

\* the largest x whose square fits the width, and its square
C15_Witness ==
    /\ arith.op = "trunc_square"
    /\ arith.x > 1
    /\ (arith.x + 1) * (arith.x + 1) >= 2 ^ ARITH_BITS
    /\ arith.res = arith.x * arith.x
    /\ arith.vals = {arith.res}

(***************************************************************************)
(* The primality oracle on its own: is_odd_prime_factor(num) for every     *)
(* num up to MaxPrimeInput and for odd composites that pass Miller-Rabin   *)
(* for one or two of the bases 2, 7, 61, next to primes and composites     *)
(* close to T::max_value().                                                *)
(***************************************************************************)
MaxPrimeInput == 300

\* strong pseudoprimes to base 2 (2047, 3277), to 2 and 7 (314821), to 2
\* and 61 (916327), to 7 and 61 (79381); 268435399 is prime
PrimeInputs ==
    (0..MaxPrimeInput) \cup
    {2047, 3277, 79381, 314821, 916327, 268435397, 268435399}

InitPrime ==
    /\ pc = "prime"
    /\ fz = <<>>
    /\ NoStage
    /\ NoCaller
    /\ \E n \in PrimeInputs :
         arith = [op |-> "none", x |-> n, y |-> 0, modu |-> 1, res |-> 0,
                  vals |-> {}]

\* prime::is_odd_prime_factor(num), num = arith.x
IsOddPrimeFactor ==
    /\ pc = "prime"
    /\ arith.op = "none"
    /\ arith' = [arith EXCEPT
                   !.op = "is_odd_prime_factor",
                   !.res = is_odd_prime_factor(arith.x)]
    /\ UnchangedRun

NextPrime == IsOddPrimeFactor

SpecPrime == InitPrime /\ [][NextPrime]_vars

DIGITS == <<"0", "1", "2", "3", "4", "5", "6", "7", "8", "9">>

digit_value(c) == (CHOOSE i \in 1..Len(DIGITS) : DIGITS[i] = c) - 1

is_digit(c) == \E i \in 1..Len(DIGITS) : DIGITS[i] = c

\* the digit loop of str::parse::<u128>: <<>> for Err, <<value>> for Ok;
\* a character that is no digit and a value above T::max_value() are errors
RECURSIVE parse_digits(_, _, _)
parse_digits(w, s, acc) ==
    IF s = <<>>
    THEN <<acc>>
    ELSE IF ~is_digit(Head(s))
         THEN <<>>
         ELSE LET d == digit_value(Head(s))
              IN  IF acc > (max_value(w) - d) \div 10
                  THEN <<>>
                  ELSE parse_digits(w, Tail(s), acc * 10 + d)

\* str::parse::<u128>: the empty string and a lone sign are errors, one
\* leading "+" is accepted
parse(w, s) ==
    IF s = <<>> THEN <<>>
    ELSE IF Len(s) = 1 /\ Head(s) \in {"+", "-"} THEN <<>>
    ELSE IF Head(s) = "+" THEN parse_digits(w, Tail(s), 0)
    ELSE parse_digits(w, s, 0)

retain_not_underscore(s) == SelectSeq(s, LAMBDA c : c # "_")

parse_to_int(w, arg) ==
    IF parse(w, arg) # <<>>
    THEN parse(w, arg)
    ELSE parse(w, retain_not_underscore(arg))

OPT_HELP == {<<"-", "-", "h", "e", "l", "p">>, <<"-", "h">>}

OPT_VERSION ==
    {<<"-", "-", "v", "e", "r", "s", "i", "o", "n">>, <<"-", "v">>}

OPT_PRETTY == {<<"-", "-", "p", "r", "e", "t", "t", "y">>, <<"-", "p">>}

Ok(n, pretty) == [ok |-> TRUE, num |-> n, pretty |-> pretty, err |-> ""]

Err(e) == [ok |-> FALSE, num |-> 0, pretty |-> FALSE, err |-> e]

parse_arguments(w, args) ==
    CASE Len(args) = 0 -> Err("no argument")
      [] Len(args) = 1 /\ args[1] \in OPT_HELP -> Err("help")
      [] Len(args) = 1 /\ args[1] \in OPT_VERSION -> Err("help")
      [] Len(args) = 1 /\ args[1] \notin (OPT_HELP \cup OPT_VERSION) ->
           IF parse_to_int(w, args[1]) # <<>>
           THEN Ok(parse_to_int(w, args[1])[1], FALSE)
           ELSE Err("cannot parse argument")
      [] Len(args) = 2 /\ args[1] \in OPT_PRETTY ->
           IF parse_to_int(w, args[2]) # <<>>
           THEN Ok(parse_to_int(w, args[2])[1], TRUE)
           ELSE Err("cannot parse 2nd argument")
      [] Len(args) = 2 /\ args[1] \notin OPT_PRETTY /\ args[2] \in OPT_PRETTY ->
           IF parse_to_int(w, args[1]) # <<>>
           THEN Ok(parse_to_int(w, args[1])[1], TRUE)
           ELSE Err("cannot parse 1st argument")
      [] OTHER -> Err("unable to parse args")

\* the exit code of factorize(num, print_pretty): Factorization::new
\* panics for num <= 1 and the process ends with the code of a panic, 101;
\* otherwise run and the printing return and main ends with 0
factorize_exit(n) == IF n <= 1 THEN 101 ELSE 0

\* the exit code of main on the arguments after the program name
main_exit(w, args) ==
    LET r == parse_arguments(w, args)
    IN  IF ~r.ok
        THEN IF r.err = "help" THEN 0 ELSE 1
        ELSE factorize_exit(r.num)

\* the arguments tried: the options, numerals with and without
\* underscores and sign, the largest value of the type and its successor,
\* and strings that are no numerals
CliTokens ==
    OPT_HELP \cup OPT_VERSION \cup OPT_PRETTY \cup
    {<<"0">>, <<"1">>, <<"2">>, <<"7", "0">>, <<"1", "_", "0">>,
     <<"_", "6", "_">>, <<"0", "1">>, <<"+", "5">>, <<"-", "5">>,
     <<"_">>, <<>>, <<"x">>, <<"+">>,
     <<"2", "6", "8", "4", "3", "5", "4", "5", "5">>,
     <<"2", "6", "8", "4", "3", "5", "4", "5", "6">>}

MaxArgs == 3

CliArgs == UNION {[1..n -> CliTokens] : n \in 0..MaxArgs}

InitCli ==
    /\ pc = "main"
    /\ fz = <<>>
    /\ NoStage
    /\ NoArith
    /\ repr = <<>>
    /\ prev = <<>>
    /\ \E a \in CliArgs : cli = [args |-> a, code |-> -1]

\* main runs to the end of the process
Main ==
    /\ pc = "main"
    /\ pc' = "exit"
    /\ cli' = [cli EXCEPT !.code = main_exit(BITS, cli.args)]
    /\ UNCHANGED <<fz, repr, prev, arith>>
    /\ UnchangedStage

NextCli == Main

SpecCli == InitCli /\ [][NextCli]_vars

\* a decimal numeral of the type: digits and underscores, a digit among
\* them, the value of the digits at most T::max_value()
IsNumeral(s) ==
    LET ds == retain_not_underscore(s)
    IN  /\ ds # <<>>
        /\ \A i \in 1..Len(ds) : is_digit(ds[i])
        /\ parse_digits(BITS, ds, 0) # <<>>

WellFormed(args) ==
    \/ Len(args) = 1 /\ args[1] \in OPT_HELP \cup OPT_VERSION
    \/ Len(args) = 1 /\ IsNumeral(args[1])
    \/ Len(args) = 2 /\ args[1] \in OPT_PRETTY /\ IsNumeral(args[2])
    \/ Len(args) = 2 /\ IsNumeral(args[1]) /\ args[2] \in OPT_PRETTY

\* C17: the program exits with code 0 for every well-formed invocation,
\* the numbers 0 and 1 included, and with code 1 exactly when the parsing of
\* the arguments fails
C17_ExitCodes ==
    pc = "exit" =>
        /\ WellFormed(cli.args) => cli.code = 0
        /\ cli.code = 1 <=>
              LET r == parse_arguments(BITS, cli.args)
              IN  ~r.ok /\ r.err # "help"

(***************************************************************************)
(* The sequential stages on their own: factorize_trial(num) and            *)
(* factorize_fermat(num, level) for every num in 2 .. MaxStageInput and    *)
(* for products of primes outside SMALL_PRIMES.                            *)
(***************************************************************************)
MaxStageInput == 400

\* with p = 67, q = 71, r = 4493 and the primes of HardInputs: p^2, p q,
\* p^4, (p q)^2, p^2 r (Fermat splits it as p^2 times r), p^8 above
\* T::max_value() left out, 3^8, 2^16, 61^2, a product Fermat misses, a
\* prime next to T::max_value(), and numbers with factors in and
\* outside SMALL_PRIMES
StageInputs ==
    (2..MaxStageInput) \cup
    {4489, 4757, 20151121, 22629049, 20169077, 6561, 65536, 3721,
     1369, 1517, 12247, 50653, 453139, 1871423, 69242651, 1874161, 2301289,
     268435399, 146964, 3844, 8978, 268435455}

InitStages ==
    /\ pc = "stage"
    /\ fz = <<>>
    /\ NoStage
    /\ NoCaller
    /\ \E n \in StageInputs :
         arith = [op |-> "none", x |-> n, y |-> 0, modu |-> 1, res |-> 0,
                  vals |-> {}]

\* Factorization::factorize_trial(num) on an empty factors, num = arith.x
FactorizeTrial ==
    /\ pc = "stage"
    /\ arith.op = "none"
    /\ arith' = [arith EXCEPT
                   !.op = "factorize_trial",
                   !.res = factorize_trial(arith.x)]
    /\ UnchangedRun

\* Factorization::factorize_fermat(num, level) on an empty factors,
\* num = arith.x, level = arith.y: 2 as factorize_until_completed calls it,
\* 4 as its first recursive call
FactorizeFermat ==
    /\ pc = "stage"
    /\ arith.op = "none"
    /\ \E level \in {2, 4} :
         arith' = [arith EXCEPT
                     !.op = "factorize_fermat",
                     !.y = level,
                     !.res = factorize_fermat(arith.x, level)]
    /\ UnchangedRun

NextStages == FactorizeTrial \/ FactorizeFermat

SpecStages == InitStages /\ [][NextStages]_vars

\* no entry of SMALL_PRIMES divides n
NoSmallPrimeDivides(n) == \A i \in 1..Len(SMALL_PRIMES) : n % SMALL_PRIMES[i] # 0

\* C18: every value factorize_fermat appends is prime, for every cofactor
\* that is a product of two or more primes outside SMALL_PRIMES
C18_FermatAppendsPrimes ==
    (/\ arith.op = "factorize_fermat"
     /\ arith.y = 2
     /\ ~IsPrime(arith.x)
     /\ NoSmallPrimeDivides(arith.x)) =>
        \A i \in 1..Len(arith.res.pushed) : IsPrime(arith.res.pushed[i])

\* the root r with r^(2^j) = n, or 0 when there is none
RECURSIVE IteratedSqrt(_, _)
IteratedSqrt(n, j) ==
    IF j = 0 THEN n
    ELSE LET r == sqrt(n)
         IN  IF r * r = n THEN IteratedSqrt(r, j - 1) ELSE 0

\* factorize_fermat either returns 1 and has appended factors whose
\* product, for level 2, is num, or returns num and has appended nothing
AllOrNothing ==
    \/ /\ arith.res.num = 1
       /\ arith.res.pushed # <<>>
       /\ arith.y = 2 => IsProductOf(arith.x, arith.res.pushed)
    \/ /\ arith.res.num = arith.x
       /\ arith.res.pushed = <<>>

\* for level 2, num = p^(2^j) with p a prime of P and j >= 1 yields 2^j
\* copies of p
PerfectPowersUnrolled(P) ==
    \A j \in 1..4 :
        LET p == IteratedSqrt(arith.x, j)
        IN  (arith.y = 2 /\ p \in P /\ IsPrime(p)) =>
                /\ arith.res.num = 1
                /\ arith.res.pushed = Repeat(p, 2 ^ j)

\* C19 as stated: factorize_fermat(num, level) is all-or-nothing for every
\* num > 1, and a perfect power p^(2^j) of any prime p yields 2^j copies
\* of p
C19_AllOrNothingEveryPrime ==
    arith.op = "factorize_fermat" =>
        /\ AllOrNothing
        /\ PerfectPowersUnrolled(2..arith.x)

\* C19: factorize_fermat(num, level) is all-or-nothing for every num > 1:
\* it returns 1 after appending factors whose product, for level 2, is num,
\* or it returns num and appends nothing; a perfect power p^(2^j) of a
\* prime p >= 67, the range of is_odd_prime_factor, yields 2^j copies of p
C19_AllOrNothing ==
    arith.op = "factorize_fermat" =>
        /\ AllOrNothing
        /\ PerfectPowersUnrolled(67..arith.x)

\* 67^4 is unrolled into four copies of 67 by one recursive call
C19_Witness ==
    /\ arith.op = "factorize_fermat"
    /\ arith.y = 2
    /\ IteratedSqrt(arith.x, 2) >= 67
    /\ IsPrime(IteratedSqrt(arith.x, 2))
    /\ arith.res.num = 1
    /\ Len(arith.res.pushed) = 4

\* C20: for every num >= 2 factorize_trial appends, in non-decreasing order
\* and with multiplicity, exactly the prime factors of num that are in
\* SMALL_PRIMES, returns the cofactor c with c times the product of the
\* appended factors equal to num and no entry of SMALL_PRIMES dividing c,
\* and stops scanning the table as soon as c = 1
C20_FactorizeTrial ==
    arith.op = "factorize_trial" =>
        LET c == arith.res.num
            pushed == arith.res.pushed
        IN  /\ IsSorted(pushed)
            /\ \A i \in 1..Len(pushed) :
                  \E k \in 1..Len(SMALL_PRIMES) : pushed[i] = SMALL_PRIMES[k]
            /\ c >= 1
            /\ arith.x % c = 0
            /\ IsProductOf(arith.x \div c, pushed)
            /\ NoSmallPrimeDivides(c)
            /\ IF c = 1
               THEN SMALL_PRIMES[arith.res.scanned] = pushed[Len(pushed)]
               ELSE arith.res.scanned = Len(SMALL_PRIMES)

\* 2 * 67^2: one factor in SMALL_PRIMES and a cofactor of primes outside it
C20_Witness ==
    /\ arith.op = "factorize_trial"
    /\ arith.res.pushed # <<>>
    /\ arith.res.num > 1
    /\ ~IsPrime(arith.res.num)
    /\ arith.res.num * arith.res.pushed[1] = arith.x

(***************************************************************************)
(* One elliptic stage, from the spawn of its threads to the end of the     *)
(* last of them.  The threads are detached: they go on after               *)
(* spawn_and_run_workers has returned.  The driver is followed up to that  *)
(* return.                                                                 *)
(***************************************************************************)
\* cofactors run starts a stage on: 37 * 331, 37^3, 37^2 * 331
StageCofactors == {12247, 50653, 453139}

\* the state spawn_and_run_workers is in at line 357, for run(c)
InitEcmStage ==
    /\ pc = "recv"
    /\ \E c \in StageCofactors :
         /\ fz = <<NewFactorization(c)>>
         /\ mf = [num |-> c, factors |-> <<>>]
         /\ wheel = [pc |-> "run", num |-> c, k |-> WHEEL_START, i |-> 0]
         /\ ecm = [w \in EcmIds |->
                     [pc |-> "run", num |-> c, curve_count |-> 1]]
    /\ chan = <<>>
    /\ poisoned = FALSE
    /\ NoCaller
    /\ NoArith

\* spawn_and_run_workers, lines 357-376, and its return: the receiver and
\* the driver's handle on the record are dropped, the threads live on
RecvDetached ==
    /\ pc = "recv"
    /\ chan # <<>>
    /\ fz' = [fz EXCEPT ![top] = recv_and_drain(@, Head(chan), mf, poisoned)]
    /\ chan' = <<>>
    /\ pc' = "elliptic"
    /\ UNCHANGED <<mf, wheel, ecm, poisoned>>
    /\ UnchangedCaller

\* a thread panics while it holds the lock: no statement of the workers
\* under the lock can panic, so this is a fault from outside the program
Poison ==
    /\ pc \in {"recv", "elliptic"}
    /\ ~poisoned
    /\ poisoned' = TRUE
    /\ UNCHANGED <<pc, fz, mf, wheel, ecm, chan>>
    /\ UnchangedCaller

NextEcmStage ==
    \/ Workers
    \/ RecvDetached

\* every thread is scheduled again and again
FairnessEcmStage ==
    /\ WF_vars(RecvDetached)
    /\ WF_vars(WheelStep \/ WheelSend)
    /\ \A w \in EcmIds : WF_vars(EcmCurve(w) \/ EcmSend(w))

SpecEcmStage == InitEcmStage /\ [][NextEcmStage]_vars /\ FairnessEcmStage

NextEcmStagePoison ==
    \/ Workers
    \/ RecvDetached
    \/ Poison

SpecEcmStagePoison ==
    InitEcmStage /\ [][NextEcmStagePoison]_vars /\ FairnessEcmStage

(***************************************************************************)
(* The same stage with the mutex spelled out: lock() waits until no thread *)
(* holds a guard, the holder works on the record, and the guard is dropped *)
(* at the end of its scope.  A thread that holds the guard is at "locked"  *)
(* (the driver at "drain").                                                *)
(***************************************************************************)
DRIVER == -1

\* the threads that hold a MutexGuard of the record
LockHolders ==
    {w \in EcmIds : ecm[w].pc = "locked"}
        \cup (IF wheel.pc = "locked" THEN {0} ELSE {})
        \cup (IF pc = "drain" THEN {DRIVER} ELSE {})

\* a lock that lets every caller in
lock_always(holders) == TRUE

\* Mutex::lock returns once no guard is alive
lock(holders) == holders = {}

\* elliptic_worker, lines 401, 423, 439: the branches that take the lock
elliptic_worker_locks(n, curve_count, maybe_factor) ==
    \/ maybe_factor > 1 /\ maybe_factor < n
    \/ maybe_factor = n /\ is_odd_prime_factor(maybe_factor)
    \/ curve_count % CURVE_REFRESH = 0

InitMutex ==
    /\ pc = "recv"
    /\ \E c \in StageCofactors :
         /\ fz = <<NewFactorization(c)>>
         /\ mf = [num |-> c, factors |-> <<>>]
         /\ wheel = [pc |-> "run", num |-> c, k |-> WHEEL_START, i |-> 0]
         /\ ecm = [w \in EcmIds |->
                     [pc |-> "run", num |-> c, curve_count |-> 1,
                      maybe_factor |-> 0]]
    /\ chan = <<>>
    /\ poisoned = FALSE
    /\ NoCaller
    /\ NoArith

\* elliptic_worker, lines 399-408 and 423-430, 439-441: the curve, then
\* lock()
EcmLock(w) ==
    /\ ecm[w].pc = "run"
    /\ elliptic_worker_continues(ecm[w].num, ecm[w].curve_count)
    /\ \E maybe_factor \in compute_maybe_factor_from_curve(ecm[w].num) :
         /\ elliptic_worker_locks(ecm[w].num, ecm[w].curve_count, maybe_factor)
         /\ lock(LockHolders)
         /\ ecm' = [ecm EXCEPT ![w].pc = "locked",
                               ![w].maybe_factor = maybe_factor]
    /\ UNCHANGED <<pc, fz, mf, wheel, chan, poisoned>>
    /\ UnchangedCaller

\* elliptic_worker, lines 399-446, an iteration that takes no lock
EcmNoLock(w) ==
    /\ ecm[w].pc = "run"
    /\ elliptic_worker_continues(ecm[w].num, ecm[w].curve_count)
    /\ \E maybe_factor \in compute_maybe_factor_from_curve(ecm[w].num) :
         ~elliptic_worker_locks(ecm[w].num, ecm[w].curve_count, maybe_factor)
    /\ ecm' = [ecm EXCEPT ![w].curve_count = @ + 1]
    /\ UNCHANGED <<pc, fz, mf, wheel, chan, poisoned>>
    /\ UnchangedCaller

\* elliptic_worker, lines 410-422, 432-438, 442: the work under the guard,
\* and the drop of the guard
EcmGuarded(w) ==
    /\ ecm[w].pc = "locked"
    /\ LET r == elliptic_worker_curve(ecm[w].num, ecm[w].curve_count,
                                      ecm[w].maybe_factor, mf)
       IN  /\ ecm' = [ecm EXCEPT ![w].pc = "run",
                                 ![w].num = r.num,
                                 ![w].curve_count = @ + 1]
           /\ mf' = r.shared
    /\ UNCHANGED <<pc, fz, wheel, chan, poisoned>>
    /\ UnchangedCaller

\* wheel_worker, lines 466-469 and 477-481: the next candidate, then lock()
WheelLock ==
    /\ wheel.pc = "run"
    /\ lock(LockHolders)
    /\ LET n == wheel_next(wheel.k, wheel.i, wheel.num)
       IN  wheel' = [wheel EXCEPT !.pc = "locked", !.k = n.k, !.i = n.i]
    /\ UNCHANGED <<pc, fz, mf, ecm, chan, poisoned>>
    /\ UnchangedCaller

\* wheel_worker, lines 470-474 and 483-498: the work under the guard
WheelGuarded ==
    /\ wheel.pc = "locked"
    /\ LET r == wheel_worker_at(wheel.num, wheel.k, mf)
       IN  /\ wheel' = [wheel EXCEPT !.pc = IF r.brk THEN "send" ELSE "run",
                                     !.num = r.num]
           /\ mf' = r.shared
    /\ UNCHANGED <<pc, fz, ecm, chan, poisoned>>
    /\ UnchangedCaller

\* spawn_and_run_workers, lines 357-365: recv(), then lock()
DriverLock ==
    /\ pc = "recv"
    /\ chan # <<>>
    /\ lock(LockHolders)
    /\ pc' = "drain"
    /\ UNCHANGED <<fz, mf, wheel, ecm, chan, poisoned>>
    /\ UnchangedCaller

\* spawn_and_run_workers, lines 367-376: the drain under the guard
DriverGuarded ==
    /\ pc = "drain"
    /\ fz' = [fz EXCEPT ![top] = recv_and_drain(@, Head(chan), mf, FALSE)]
    /\ chan' = <<>>
    /\ pc' = "elliptic"
    /\ UNCHANGED <<mf, wheel, ecm, poisoned>>
    /\ UnchangedCaller

NextMutex ==
    \/ \E w \in EcmIds : EcmLock(w)
    \/ \E w \in EcmIds : EcmNoLock(w)
    \/ \E w \in EcmIds : EcmGuarded(w)
    \/ \E w \in EcmIds : EcmSend(w)
    \/ WheelLock
    \/ WheelGuarded
    \/ WheelSend
    \/ DriverLock
    \/ DriverGuarded

SpecMutex == InitMutex /\ [][NextMutex]_vars

(***************************************************************************)
(* The elliptic stage: the driver's loop and the workers.                  *)
(***************************************************************************)
\* some thread of a stage has been spawned and the stage is not collected
StageActive ==
    \/ wheel.pc # "idle"
    \/ \E w \in EcmIds : ecm[w].pc # "idle"

CurveFound(w) ==
    {g \in compute_maybe_factor_from_curve(ecm[w].num) :
        /\ g > 1
        /\ g < ecm[w].num
        /\ ecm[w].pc = "run"
        /\ elliptic_worker_continues(ecm[w].num, ecm[w].curve_count)
        /\ ecm'[w].curve_count = ecm[w].curve_count + 1
        /\ LET r == elliptic_worker_curve(ecm[w].num, ecm[w].curve_count,
                                          g, mf)
           IN  ecm'[w].num = r.num /\ mf' = r.shared}

\* the update of the shared record for a divisor g found by a curve: if g
\* divides the shared cofactor, the cofactor is divided by g (and set to 1
\* when the quotient is prime, which is then recorded too) and (g, false)
\* is appended; otherwise nothing is appended
SharedUpdateFor(g) ==
    IF mf.num % g = 0
    THEN /\ Len(mf'.factors) > Len(mf.factors)
         /\ SubSeq(mf'.factors, 1, Len(mf.factors) + 1) =
                Append(mf.factors, <<g, FALSE>>)
         /\ mf'.num = IF is_odd_prime_factor(mf.num \div g)
                      THEN 1
                      ELSE mf.num \div g
    ELSE mf'.factors = mf.factors

\* C22: when an ECM worker finds a non-trivial divisor g of its local
\* cofactor, then under the lock, if g divides the shared cofactor, the
\* shared cofactor becomes (shared cofactor) / g and (g, false) is
\* appended; otherwise nothing is appended; also when the local cofactor
\* is stale
C22_EcmUpdate ==
    [][\A w \in EcmIds : \A g \in CurveFound(w) : SharedUpdateFor(g)]_vars

\* the same update, for a worker whose local cofactor is the shared one
C22_EcmUpdateFresh ==
    [][\A w \in EcmIds :
         ecm[w].num = mf.num => \A g \in CurveFound(w) : SharedUpdateFor(g)]_vars

\* the number of times k divides n
RECURSIVE Multiplicity(_, _)
Multiplicity(n, k) ==
    IF n > 0 /\ k > 1 /\ n % k = 0 THEN 1 + Multiplicity(n \div k, k) ELSE 0

\* this step is an iteration of the wheel worker's loop that takes the lock
WheelVisits == wheel.pc = "run" /\ wheel'.pc # "idle" /\ wheel' # wheel

\* the wheel worker ends its search at candidate k' with k' > num / k':
\* it appends (num, flag), sets the shared cofactor to 1 and finishes
WheelDeclares(flag) ==
    (WheelVisits /\ wheel'.k > wheel.num \div wheel'.k) =>
        /\ mf'.factors = Append(mf.factors, <<wheel.num, flag>>)
        /\ mf'.num = 1
        /\ wheel'.pc = "send"

\* the wheel worker peels every power of the divisor k', appending
\* (k', true) once per power
WheelPeels ==
    /\ mf'.factors =
          mf.factors \o Repeat(<<wheel'.k, TRUE>>,
                               Multiplicity(wheel.num, wheel'.k))
    /\ mf'.num = wheel.num \div (wheel'.k ^ Multiplicity(wheel.num, wheel'.k))
    /\ wheel'.num = mf'.num
    /\ wheel'.pc = "run"

WheelDivides ==
    /\ WheelVisits
    /\ wheel'.k <= wheel.num \div wheel'.k
    /\ wheel.num % wheel'.k = 0

\* C23 as stated: at a candidate k with k > cofactor / k the wheel worker
\* appends (cofactor, true), sets the shared cofactor to 1 and finishes, and
\* when k divides the cofactor it peels every power of k, appending
\* (k, true) once per power
C23_WheelDeclaresPrime ==
    [][/\ WheelDeclares(TRUE)
       /\ WheelDivides => WheelPeels]_vars

\* C23: at a candidate k with k > cofactor / k the wheel worker appends
\* (cofactor, false), cofactor its local one, sets the shared cofactor to 1
\* and finishes; when k divides its local cofactor, is at most the shared
\* cofactor and is not yet recorded, it peels every power of k, appending
\* (k, true) once per power; otherwise it takes over the shared cofactor,
\* appends nothing and finishes
C23_WheelWorker ==
    [][/\ WheelDeclares(FALSE)
       /\ WheelDivides =>
             IF \/ wheel'.k > mf.num
                \/ \E e \in 1..Len(mf.factors) : mf.factors[e][1] = wheel'.k
             THEN /\ mf' = mf
                  /\ wheel'.num = mf.num
                  /\ wheel'.pc = "send"
             ELSE WheelPeels]_vars

\* the wheel worker has peeled the three powers of 37 off 50653, met
\* k > 1 / k, recorded (1, false) and left its loop
C23_Witness ==
    /\ wheel.pc = "send"
    /\ wheel.num = 1
    /\ mf.num = 1
    /\ mf.factors = <<<<37, TRUE>>, <<37, TRUE>>, <<37, TRUE>>, <<1, FALSE>>>>

\* the curve trials worker w has run
CurveTrials(w) == ecm[w].curve_count - 1

\* the threads of the stage that have sent their message and returned
ThreadsDone ==
    {w \in EcmIds : ecm[w].pc = "done"}
        \cup (IF wheel.pc = "done" THEN {0} ELSE {})

\* C24: every ECM worker runs at most MAX_ELLIPTIC_CURVES curve trials,
\* iterations skipped on a poisoned lock included, then sends one message,
\* true if its local cofactor is 1 and false if the budget is exhausted,
\* and terminates: it sends nothing more, and it does get there
C24_CurveBudget ==
    /\ [][\A w \in EcmIds :
            /\ ecm'[w].pc # "idle" =>
                  ecm'[w].curve_count - 1 <= MAX_ELLIPTIC_CURVES
            /\ (ecm[w].pc = "run" /\ ecm'[w].pc = "done") =>
                  /\ ecm[w].num = 1 \/ CurveTrials(w) = MAX_ELLIPTIC_CURVES
                  /\ pc = "recv" => chan' = Append(chan, ecm[w].num = 1)
                  /\ ecm'[w].num = ecm[w].num
            /\ ecm[w].pc = "done" => ecm'[w] = ecm[w]
            /\ (ecm'[w] # ecm[w] /\ ecm'[w].pc = "run") =>
                  CurveTrials(w)' = CurveTrials(w) + 1]_vars
    /\ [](pc = "recv" => Len(chan) = Cardinality(ThreadsDone))
    /\ <>[](\A w \in EcmIds : ecm[w].pc = "done")

\* a worker has used its whole budget on a poisoned lock and has sent false
C24_Witness ==
    /\ poisoned
    /\ \E w \in EcmIds :
         /\ ecm[w].pc = "done"
         /\ ecm[w].num > 1
         /\ CurveTrials(w) = MAX_ELLIPTIC_CURVES
    /\ chan = <<FALSE>>

AllThreads == EcmIds \cup {0}

\* C25: the driver takes one message, the first sent, and reads the shared
\* record once: cofactor 1 for true and the shared cofactor for false, with
\* every pair recorded so far; it receives nothing more, and every later
\* send finds the receiver gone, is possible at once and ends its worker
C25_FirstSenderWins ==
    /\ [][(pc = "recv" /\ pc' # "recv") =>
             /\ chan # <<>>
             /\ fz'[top].cof = (IF Head(chan) THEN 1 ELSE mf.num)
             /\ fz'[top].ec = mf.factors
             /\ mf' = mf]_vars
    /\ [][pc = "elliptic" =>
             (pc' = "elliptic" /\ fz' = fz /\ chan' = <<>>)]_vars
    /\ [](pc = "elliptic" =>
            /\ (wheel.pc = "send" => ENABLED WheelSend)
            /\ \A w \in EcmIds :
                 (ecm[w].pc = "run"
                    /\ ~elliptic_worker_continues(ecm[w].num, ecm[w].curve_count))
                 => ENABLED EcmSend(w))
    /\ <>[](ThreadsDone = AllThreads)

\* the driver has returned on a false message with a pair and a cofactor
\* left, and every other worker has sent to the dropped receiver since
C25_Witness ==
    /\ pc = "elliptic"
    /\ fz[1].cof > 1
    /\ fz[1].ec # <<>>
    /\ chan = <<>>
    /\ ThreadsDone = AllThreads

\* C26: the stage has one MaybeFactors record and every access to it is made
\* by the thread that holds its mutex: at most one thread holds a guard, the
\* record changes only in a step of the holder, which then drops the guard,
\* and while a guard is held no other thread gets at the record
C26_MutualExclusion ==
    /\ [](Cardinality(LockHolders) <= 1)
    /\ [][mf' # mf => (LockHolders # {} /\ LockHolders' = {})]_vars
    /\ [][(LockHolders # {} /\ LockHolders' # {}) =>
             (LockHolders' = LockHolders /\ mf' = mf /\ fz' = fz)]_vars

\* an ECM worker holds the guard on a record the wheel worker has written,
\* while the wheel worker and the driver are due to lock
C26_Witness ==
    /\ \E w \in EcmIds : LockHolders = {w}
    /\ mf.factors # <<>>
    /\ wheel.pc = "run"
    /\ pc = "recv"
    /\ chan # <<>>

\* an iteration of ECM worker w on a poisoned mutex is skipped: the next
\* curve is due, with the local cofactor and the record as they were
EcmSkipsPoisoned ==
    \A w \in EcmIds :
        (poisoned /\ ecm'[w] # ecm[w] /\ ecm'[w].pc = "run") =>
            /\ ecm'[w].num = ecm[w].num
            /\ ecm'[w].curve_count = ecm[w].curve_count + 1
            /\ mf' = mf

\* the driver leaves receiver.recv() on a poisoned mutex
DriverReturnsPoisoned == poisoned /\ pc = "recv" /\ pc' # "recv"

EcmIterates(w) == ecm[w].pc = "run" /\ ecm'[w] # ecm[w] /\ ecm'[w].pc = "run"

\* C28: once the shared cofactor is 1 it stays 1 and no message but the
\* workers' own is sent; an ECM worker leaves the record alone and keeps its
\* local cofactor or reads 1, the wheel worker ends its loop with 1 at its
\* next access; an ECM worker at a curve count that is a multiple of
\* CURVE_REFRESH leaves the iteration with the shared cofactor whatever the
\* curve gave; and under fair scheduling every thread of the stage ends
C28_SiblingsExit ==
    /\ [][mf.num = 1 =>
             /\ mf'.num = 1
             /\ \A w \in EcmIds :
                  EcmIterates(w) =>
                     (mf' = mf /\ ecm'[w].num \in {1, ecm[w].num})
             /\ (wheel.pc = "run" /\ wheel' # wheel) =>
                     (wheel'.pc = "send" /\ wheel'.num = 1)]_vars
    /\ [][\A w \in EcmIds :
             (EcmIterates(w) /\ ecm[w].curve_count % CURVE_REFRESH = 0) =>
                 ecm'[w].num = mf'.num]_vars
    /\ [][Len(chan') > Len(chan) =>
             /\ Len(chan') = Len(chan) + 1
             /\ Cardinality(ThreadsDone') = Cardinality(ThreadsDone) + 1]_vars
    /\ (mf.num = 1) ~> (ThreadsDone = AllThreads)

\* a worker completed the stage while a sibling held a stale cofactor; the
\* sibling re-read at its second curve, every thread has ended with 1 and
\* the driver has its three messages
C28_Witness ==
    /\ mf.num = 1
    /\ pc = "recv"
    /\ chan = <<TRUE, TRUE, TRUE>>
    /\ ThreadsDone = AllThreads
    /\ wheel.num = 1
    /\ \A w \in EcmIds : ecm[w].num = 1
    /\ \E w \in EcmIds : ecm[w].curve_count = CURVE_REFRESH + 1

\* the exponent of p in the product of the first components of pairs
RECURSIVE MultiplicityInPairs(_, _)
MultiplicityInPairs(pairs, p) ==
    IF pairs = <<>>
    THEN 0
    ELSE Multiplicity(Head(pairs)[1], p) + MultiplicityInPairs(Tail(pairs), p)

\* c divides v times the product of the first components of pairs, told
\* prime by prime
DividesCofactorTimesPairs(c, v, pairs) ==
    \A p \in {d \in Divisors(c) : IsPrime(d)} :
        Multiplicity(c, p) <= Multiplicity(v, p) + MultiplicityInPairs(pairs, p)

\* the cofactor the stage was started on
StageCofactor == fz[1].num

\* C29: in every state of a stage started on c, c divides v times the
\* product of the first components recorded in MaybeFactors.factors, for v
\* the shared cofactor and for v the local cofactor of the wheel worker and
\* of every ECM worker; a thread that sent true has local cofactor 1, so c
\* then divides the product of the recorded first components alone
C29_CofactorDivides ==
    /\ DividesCofactorTimesPairs(StageCofactor, mf.num, mf.factors)
    /\ DividesCofactorTimesPairs(StageCofactor, wheel.num, mf.factors)
    /\ \A w \in EcmIds :
         DividesCofactorTimesPairs(StageCofactor, ecm[w].num, mf.factors)
    /\ ((wheel.pc = "done" /\ wheel.num = 1)
          \/ \E w \in EcmIds : ecm[w].pc = "done" /\ ecm[w].num = 1)
         => DividesCofactorTimesPairs(StageCofactor, 1, mf.factors)

\* a worker has sent true on a record whose first components multiply to
\* more than c: a prime of c is recorded more often than it divides c
C29_Witness ==
    /\ pc = "recv"
    /\ chan # <<>>
    /\ Head(chan)
    /\ mf.num = 1
    /\ \E p \in {d \in Divisors(StageCofactor) : IsPrime(d)} :
         MultiplicityInPairs(mf.factors, p) > Multiplicity(StageCofactor, p)

(***************************************************************************)
(* select_lucas_params (src/src/prime/mod.rs), the choice of the           *)
(* parameters of the strong Lucas test of is_prime_strong_bpsw.  The code  *)
(* works on u128 and is called for num above u64::MAX; the model works on  *)
(* LUCAS_BITS bits and is applied to every odd num above half that width.  *)
(***************************************************************************)
LUCAS_BITS == 10

\* line 127: the index at which num is tested for a perfect square
LUCAS_SQUARE_CHECK == 10

LucasInputs ==
    {n \in (2 ^ (LUCAS_BITS \div 2) + 1)..(2 ^ LUCAS_BITS - 1) : n % 2 = 1}

\* d_seq, line 100: the i-th value of (5..).step_by(2)
d_seq(i) == 5 + 2 * i

\* lines 112-118: P and Q for the candidate d of index i
lucas_p_q(i, d, d_orig, n) ==
    IF i % 2 = 1
    THEN <<1, (1 + d_orig) \div 4>>
    ELSE IF d = 5
         THEN <<5, 5>>
         ELSE <<1, n - ((d_orig - 1) \div 4)>>

LucasNone == [tag |-> "None", d |-> 0, p |-> 0, q |-> 0]

\* the loop of select_lucas_params from index i on; `n - d` at line 106
\* overflows for d > n (a panic or a wrapped value, by the build)
RECURSIVE select_lucas_from(_, _, _)
select_lucas_from(w, n, i) ==
    LET d_orig == d_seq(i)
    IN  IF i % 2 = 1 /\ d_orig > n
        THEN [tag |-> "Overflow", d |-> 0, p |-> 0, q |-> 0]
        ELSE LET d == IF i % 2 = 1 THEN n - d_orig ELSE d_orig
                 jac_sym == jacobi_symbol(w, d, n)
             IN  IF jac_sym = -1
                 THEN LET pq == lucas_p_q(i, d, d_orig, n)
                      IN  [tag |-> "Some", d |-> d, p |-> pq[1], q |-> pq[2]]
                 ELSE IF jac_sym = 0 /\ d_orig # n
                      THEN LucasNone
                      ELSE IF i = LUCAS_SQUARE_CHECK /\ sqrt(n) * sqrt(n) = n
                           THEN LucasNone
                           ELSE select_lucas_from(w, n, i + 1)

select_lucas_params(w, n) == select_lucas_from(w, n, 0)

InitLucas ==
    /\ pc = "lucas"
    /\ fz = <<>>
    /\ NoStage
    /\ NoCaller
    /\ \E n \in LucasInputs :
         arith = [op |-> "none", x |-> n, y |-> 0, modu |-> 1, res |-> 0,
                  vals |-> {}]

\* select_lucas_params(num), num = arith.x
SelectLucasParams ==
    /\ pc = "lucas"
    /\ arith.op = "none"
    /\ arith' = [arith EXCEPT
                   !.op = "select_lucas_params",
                   !.res = select_lucas_params(LUCAS_BITS, arith.x)]
    /\ UnchangedRun

NextLucas == SelectLucasParams

SpecLucas == InitLucas /\ [][NextLucas]_vars

\* the i-th D of the walk 5, -7, 9, -11, ... as a residue of n
LucasD(n, i) == IF i % 2 = 1 THEN n - d_seq(i) ELSE d_seq(i)

\* the candidates before index i all have Jacobi symbol 1 (or are n itself)
LucasWalkReaches(n, i) ==
    \A j \in 0..(i - 1) :
        \/ Jacobi(LucasD(n, j), n) = 1
        \/ Jacobi(LucasD(n, j), n) = 0 /\ d_seq(j) = n

\* the walk ends at index i with a Jacobi symbol of -1
LucasFound(n, i) ==
    LucasWalkReaches(n, i) /\ Jacobi(LucasD(n, i), n) = -1

\* the walk ends without parameters: a Jacobi symbol of 0 at a D other
\* than n, or n a perfect square once the first candidates are through
LucasRejects(n) ==
    \/ \E i \in 0..LUCAS_SQUARE_CHECK :
         /\ LucasWalkReaches(n, i)
         /\ Jacobi(LucasD(n, i), n) = 0
         /\ d_seq(i) # n
    \/ /\ sqrt(n) * sqrt(n) = n
       /\ LucasWalkReaches(n, LUCAS_SQUARE_CHECK + 1)

\* what select_lucas_params is to return on n for the result r
LucasAsSpecified(n, r) ==
    /\ r.tag \in {"Some", "None"}
    /\ r.tag = "None" <=> LucasRejects(n)
    /\ r.tag = "Some" =>
         /\ \E i \in 0..LUCAS_SQUARE_CHECK :
              LucasFound(n, i) /\ r.d = LucasD(n, i)
         /\ Jacobi(r.d, n) = -1
         /\ (4 * r.q + r.d) % n = (r.p * r.p) % n

\* C30: select_lucas_params(n) ends for every odd n of the upper half of
\* the widths; it walks D through 5, -7, 9, -11, ... as n - |D|, returns
\* None when a Jacobi symbol is 0 for a D with |D| # n or when n, the first
\* candidates through, is a perfect square, and else the first (D, P, Q)
\* with Jacobi symbol -1, for which D is P^2 - 4Q modulo n
C30_SelectLucasParams ==
    arith.op = "select_lucas_params" => LucasAsSpecified(arith.x, arith.res)

\* the same for n below 2^(LUCAS_BITS - 1), where no candidate n - |D| has
\* its top bit set
C30_SelectLucasParamsLowHalf ==
    (arith.op = "select_lucas_params" /\ arith.x < 2 ^ (LUCAS_BITS - 1)) =>
        LucasAsSpecified(arith.x, arith.res)

====
